---- MODULE Spec2Model ----
(***************************************************************************)
(* Model of src/batch_process.py: VideoProcessor.process_all_videos, the   *)
(* runners it gathers (process_video_with_semaphore, process_single_video) *)
(* and the ledger log_data they update.                                    *)
(*                                                                         *)
(* asyncio runs one coroutine at a time and switches only at an await, so  *)
(* every action below is the code between two awaits of one task: the      *)
(* answer of the awaited call (chosen by the environment) and everything   *)
(* the task then does up to its next await or its return.  datetime.now    *)
(* (timestamps) is left out, and so is what print shows; a print of a file *)
(* name the console cannot encode raises (UnicodeEncodeError).             *)
(***************************************************************************)
EXTENDS Integers, Sequences, FiniteSets, TLC

(* ------------------------------ bounds -------------------------------- *)
\* files the input folder may hold (named 1..NumFiles, sorted order = numeric order)
NumFiles == 3
\* value given to MAX_CONCURRENT_TASKS (5 at src/batch_process.py:18)
PoolSize == 2
\* polls one attempt may make: max_wait / wait_interval (3600 / 10 = 360 in the source)
MaxPolls == 2
\* files without an output that a batch with recorded histories may hold
MaxRecorded == 1

(* ------------------------- program constants -------------------------- *)
MAX_CONCURRENT_TASKS == PoolSize
RETRY_LIMIT == 1
wait_interval == 10
max_wait == MaxPolls * wait_interval

\* Python's None
None == "None"
NoResult == [status |-> "pending"]
AllFiles == 1..NumFiles
\* error texts a remote `failed` status may carry; None is a response without `error`
RemoteErrors == {None, "quota exceeded"}
\* the statuses line 235 takes as in progress
InProgressStatuses == {"requested", "accepted", "initializing", "preprocessing",
                       "processing", "postprocessing"}
\* the `status` values a poll may answer with; None is a response without `status`
Statuses == {"complete", "failed", "processing", "paused", None}
\* no status response received since the last request
NoResponse == [status |-> "no response"]
\* the `progress` values an in-progress response may carry
ProgressValues == {0, 50}
\* what gather hands back for a task that ended with an exception
Raised == [status |-> "raised", error |-> "UnicodeEncodeError"]

VARIABLES
    mainpc,       \* position of process_all_videos
    input,        \* the video files of INPUT_FOLDER
    output,       \* OUTPUT_FOLDER: what is at each file's final path
    temps,        \* OUTPUT_FOLDER: temporary artifacts <<file, submission>> left there
    log_file,     \* number of times LOG_FILE was written
    semaphore,    \* self.semaphore._value
    log_data,     \* self.log_data
    pc,           \* per file: the await its runner is suspended at
    retry_count,  \* per file: retry_count of the current process_single_video frame
    request_id,   \* per file: result["request_id"] of the current frame
    elapsed,      \* per file: elapsed of the current frame
    result,       \* per file: what its task returned to gather
    recording,    \* history: whether the four histories below are kept
    errors,       \* history: per file, the exception of each failed attempt
    reported,     \* history: per file, the `error` of each `failed` status response
    req_ids,      \* history: per file, the requestIds received
    submits,      \* history: per file, number of submit_video_job calls
    invoked,      \* history: per file, the remote operations called
    unprintable,  \* the files whose name sys.stdout cannot encode
    polled,       \* history: per file, the status response of its last poll
    remote,       \* history: the jobs created that no poll has reported terminal
    completed,    \* history: the files in the order their runners returned
    tracking      \* history: whether remote and completed are kept

vars == <<mainpc, input, output, temps, log_file, semaphore, log_data, pc,
          retry_count, request_id, elapsed, result, recording, errors, reported, req_ids,
          submits, invoked, unprintable, polled, remote, completed, tracking>>

\* what no step of a runner changes
fixed == <<mainpc, input, log_file, recording, unprintable, tracking>>

(* ------------------------------ helpers ------------------------------- *)
\* sorted(S) as a sequence
RECURSIVE Sorted(_)
Sorted(S) ==
    IF S = {} THEN <<>>
    ELSE LET m == CHOOSE x \in S : \A y \in S : x <= y
         IN  <<m>> \o Sorted(S \ {m})

\* the requestId the service assigns to the n-th submission of file f:
\* opaque and unique per submission
RequestIdOf(f, n) == "req-" \o ToString(f) \o "-" \o ToString(n)

\* the uuid4-named temporary artifact of the n-th submission of file f
TempOf(f, n) == <<f, n>>

get_video_files == input

\* faulty variant: the skip check never finds the output
is_already_processed_never(f) == FALSE

is_already_processed(f) == output[f] # "absent"

RetryAllowed(rc) == rc < RETRY_LIMIT

\* faulty variant: the retry passes its own retry_count on
NextRetryCountSame(rc) == rc

NextRetryCount(rc) == rc + 1

\* faulty variant: the outcome does not take the error text
NewResultNoError(f, status, err) ==
    [filename |-> f, status |-> status, request_id |-> request_id'[f],
     error |-> None, retry_count |-> retry_count'[f]]

\* lines 162-169 with the status and error its return sets (173-174, 223, 252-253)
NewResult(f, status, err) ==
    [filename |-> f, status |-> status, request_id |-> request_id'[f],
     error |-> err, retry_count |-> retry_count'[f]]

\* faulty variant: a success counted twice
CountSuccessfulTwice(ld) == [ld EXCEPT !.successful = @ + 2]
\* faulty variant: a failure not counted
CountFailedNot(ld) == ld

CountSkipped(ld) == [ld EXCEPT !.skipped = @ + 1]
CountSuccessful(ld) == [ld EXCEPT !.successful = @ + 1]
CountFailed(ld) == [ld EXCEPT !.failed = @ + 1]

\* faulty variant: the remote error text is dropped
JobFailedMessageGeneric(e) == "Job failed"

\* str(e) of a remote `failed` status
JobFailedMessage(e) == "Job failed: " \o (IF e = None THEN "Unknown error" ELSE e)

TimeoutMessage == "Timeout after max_wait s"

\* faulty variant: a status that is not known is taken as a failure
StatusBranchStrict(status) ==
    IF status = "complete" THEN "complete"
    ELSE IF status \in InProgressStatuses THEN "in_progress"
    ELSE "failed"

\* lines 211-239: the branch of the polling loop a status takes
StatusBranch(status) ==
    IF status = "complete" THEN "complete"
    ELSE IF status = "failed" THEN "failed"
    ELSE IF status \in InProgressStatuses THEN "in_progress"
    ELSE "other"

\* print(f"... {input_file.name} ...") returns
Printable(f) == f \notin unprintable

\* the histories, kept when recording
Record(h, x) == IF recording THEN Append(h, x) ELSE h
Note(S, x) == IF recording THEN S \cup {x} ELSE S
Response(st) == IF recording THEN [status |-> st] ELSE NoResponse
\* the histories of the whole batch, kept when tracking
Track(h, x) == IF tracking THEN Append(h, x) ELSE h
Created(S, x) == IF tracking THEN S \cup {x} ELSE S

(* --------------------- exits of an atomic step ------------------------ *)
\* The task of f suspends at await p; sem is the semaphore value it leaves.
Suspend(f, p, sem) ==
    /\ pc' = [pc EXCEPT ![f] = p]
    /\ semaphore' = sem
    /\ UNCHANGED <<result, log_data, elapsed, completed>>

\* faulty variant: the slot is not given back when the runner returns
ReturnNoRelease(f, res, ld, sem) ==
    /\ pc' = [pc EXCEPT ![f] = "done"]
    /\ result' = [result EXCEPT ![f] = res]
    /\ log_data' = ld
    /\ semaphore' = sem
    /\ elapsed' = [elapsed EXCEPT ![f] = 0]
    /\ completed' = Track(completed, f)

\* process_single_video returns res; `async with self.semaphore` releases.
\* (elapsed goes with the frame.)
Return(f, res, ld, sem) ==
    /\ pc' = [pc EXCEPT ![f] = "done"]
    /\ result' = [result EXCEPT ![f] = res]
    /\ log_data' = ld
    /\ semaphore' = sem + 1
    /\ elapsed' = [elapsed EXCEPT ![f] = 0]
    /\ completed' = Track(completed, f)

\* faulty variant: the new frame starts with the requestId of the frame before
EnterKeepsId(f, rc, sem) ==
    /\ retry_count' = [retry_count EXCEPT ![f] = rc]
    /\ polled' = [polled EXCEPT ![f] = NoResponse]
    /\ UNCHANGED <<request_id, errors, req_ids, output, temps, fixed, reported, remote>>
    /\ IF is_already_processed(f)
       THEN /\ Return(f, NewResult(f, "skipped", "Already processed"),
                      CountSkipped(log_data), sem)
            /\ UNCHANGED <<submits, invoked>>
       ELSE /\ submits' = [submits EXCEPT ![f] = @ + 1]
            /\ invoked' = [invoked EXCEPT ![f] = Note(@, "submit")]
            /\ Suspend(f, "submit", sem)

\* Entry of process_single_video(f, rc) up to its first await (lines 161-181).
\* When the file name cannot be printed, line 176 or 179 raises, the handler's
\* own print (line 245) raises too and the exception leaves the task: after
\* line 175 has counted the file when its output exists.
Enter(f, rc, sem) ==
    /\ retry_count' = [retry_count EXCEPT ![f] = rc]
    /\ request_id' = [request_id EXCEPT ![f] = None]
    /\ polled' = [polled EXCEPT ![f] = NoResponse]
    /\ UNCHANGED <<errors, req_ids, output, temps, fixed, reported, remote>>
    /\ IF is_already_processed(f)
       THEN /\ Return(f, IF Printable(f)
                         THEN NewResult(f, "skipped", "Already processed")
                         ELSE Raised,
                      CountSkipped(log_data), sem)
            /\ UNCHANGED <<submits, invoked>>
       ELSE IF Printable(f)
       THEN /\ submits' = [submits EXCEPT ![f] = @ + 1]
            /\ invoked' = [invoked EXCEPT ![f] = Note(@, "submit")]
            /\ Suspend(f, "submit", sem)
       ELSE /\ Return(f, Raised, log_data, sem)
            /\ UNCHANGED <<submits, invoked>>

\* faulty variant: the slot is given back for the time of the backoff
ExceptRelease(f, err) ==
    /\ errors' = [errors EXCEPT ![f] = Record(@, err)]
    /\ UNCHANGED retry_count
    /\ IF RetryAllowed(retry_count[f])
       THEN /\ pc' = [pc EXCEPT ![f] = "backoff"]
            /\ elapsed' = [elapsed EXCEPT ![f] = 0]
            /\ semaphore' = semaphore + 1
            /\ UNCHANGED <<result, log_data, completed>>
       ELSE Return(f, NewResult(f, "failed", err), CountFailed(log_data), semaphore)

\* faulty variant: a runner that fails for good cancels the runners in flight
ExceptCancels(f, err) ==
    /\ errors' = [errors EXCEPT ![f] = Record(@, err)]
    /\ UNCHANGED retry_count
    /\ IF RetryAllowed(retry_count[f])
       THEN /\ pc' = [pc EXCEPT ![f] = "backoff"]
            /\ elapsed' = [elapsed EXCEPT ![f] = 0]
            /\ UNCHANGED <<semaphore, result, log_data, completed>>
       ELSE /\ pc' = [g \in AllFiles |->
                         IF g = f \/ pc[g] \in {"submit", "upload", "sleep", "poll",
                                                "download", "backoff"}
                         THEN "done" ELSE pc[g]]
            /\ result' = [result EXCEPT ![f] = NewResult(f, "failed", err)]
            /\ log_data' = CountFailed(log_data)
            /\ semaphore' = semaphore + 1
            /\ elapsed' = [elapsed EXCEPT ![f] = 0]
            /\ completed' = Track(completed, f)

\* `except Exception as e` (lines 243-255); the caller states request_id'.
\* (elapsed is not read again in this frame.)
Except(f, err) ==
    /\ errors' = [errors EXCEPT ![f] = Record(@, err)]
    /\ UNCHANGED retry_count
    /\ IF RetryAllowed(retry_count[f])
       THEN /\ pc' = [pc EXCEPT ![f] = "backoff"]
            /\ elapsed' = [elapsed EXCEPT ![f] = 0]
            /\ UNCHANGED <<semaphore, result, log_data, completed>>
       ELSE Return(f, NewResult(f, "failed", err), CountFailed(log_data), semaphore)

(* ------------------------------ Init ---------------------------------- *)
\* VideoProcessor.__init__ (lines 24-36), over the folders the batch finds:
\* up to NumFiles input files, at most `most` of them without an output yet
Constructed(rec, most) ==
    /\ mainpc = "start"
    /\ \E n \in 0..NumFiles : input = 1..n
    /\ \E done \in SUBSET input :
           /\ Cardinality(input \ done) <= most
           /\ output = [f \in AllFiles |-> IF f \in done THEN "existing" ELSE "absent"]
    /\ temps = {}
    /\ log_file = 0
    /\ semaphore = MAX_CONCURRENT_TASKS
    /\ log_data = [total_videos |-> 0, successful |-> 0, failed |-> 0,
                   skipped |-> 0, results |-> <<>>]
    /\ pc = [f \in AllFiles |-> "none"]
    /\ retry_count = [f \in AllFiles |-> 0]
    /\ request_id = [f \in AllFiles |-> None]
    /\ elapsed = [f \in AllFiles |-> 0]
    /\ result = [f \in AllFiles |-> NoResult]
    /\ recording = rec
    /\ errors = [f \in AllFiles |-> <<>>]
    /\ reported = [f \in AllFiles |-> <<>>]
    /\ req_ids = [f \in AllFiles |-> <<>>]
    /\ submits = [f \in AllFiles |-> 0]
    /\ invoked = [f \in AllFiles |-> {}]
    /\ polled = [f \in AllFiles |-> NoResponse]
    /\ remote = {}
    /\ completed = <<>>

\* every file name can be printed
Init == Constructed(FALSE, NumFiles) /\ unprintable = {} /\ tracking = FALSE

(* ------------------------ process_all_videos -------------------------- *)
\* lines 262-284: discovery, the early return on no files, the tasks of gather
Discover ==
    /\ mainpc = "start"
    /\ log_data' = [log_data EXCEPT !.total_videos = Cardinality(get_video_files)]
    /\ IF get_video_files = {}
       THEN /\ mainpc' = "returned"
            /\ pc' = pc
       ELSE /\ mainpc' = "gather"
            /\ pc' = [f \in AllFiles |-> IF f \in get_video_files THEN "queued" ELSE "none"]
    /\ UNCHANGED <<input, output, temps, log_file, semaphore, retry_count, request_id,
                   elapsed, result, recording, errors, reported, req_ids, submits, invoked,
                   unprintable, polled, remote, completed, tracking>>

\* lines 287-297: one result of gather merged into the ledger
Merge(ld, r) ==
    IF r.status = "raised"
    THEN [ld EXCEPT !.results = Append(@, [filename |-> "unknown", status |-> "failed",
                                           error |-> r.error]),
                    !.failed = @ + 1]
    ELSE [ld EXCEPT !.results = Append(@, r)]

RECURSIVE MergeAll(_, _)
MergeAll(ld, rs) ==
    IF rs = <<>> THEN ld ELSE MergeAll(Merge(ld, Head(rs)), Tail(rs))

\* faulty variant: gather returns as soon as one task has finished
GatherDoneFirst == \E f \in get_video_files : pc[f] = "done"

\* gather returns when every task has finished
GatherDone == \A f \in get_video_files : pc[f] = "done"

\* faulty variant: the results are merged in the order the runners returned
CollectAsCompleted ==
    /\ mainpc = "gather"
    /\ GatherDone
    /\ LET rs == [i \in 1..Len(completed) |-> result[completed[i]]]
       IN  log_data' = MergeAll(log_data, rs)
    /\ mainpc' = "save_log"
    /\ UNCHANGED <<input, output, temps, log_file, semaphore, pc, retry_count, request_id,
                   elapsed, result, recording, errors, reported, req_ids, submits, invoked,
                   unprintable, polled, remote, completed, tracking>>

\* lines 285-301: gather has returned; the results are merged in task order
Collect ==
    /\ mainpc = "gather"
    /\ GatherDone
    /\ LET order == Sorted(get_video_files)
           rs == [i \in 1..Len(order) |-> result[order[i]]]
       IN  log_data' = MergeAll(log_data, rs)
    /\ mainpc' = "save_log"
    /\ UNCHANGED <<input, output, temps, log_file, semaphore, pc, retry_count, request_id,
                   elapsed, result, recording, errors, reported, req_ids, submits, invoked,
                   unprintable, polled, remote, completed, tracking>>

\* lines 301-307: save_log writes LOG_FILE, print_summary follows
SaveLog ==
    /\ mainpc = "save_log"
    /\ log_file' = log_file + 1
    /\ mainpc' = "finished"
    /\ UNCHANGED <<input, output, temps, semaphore, log_data, pc, retry_count, request_id,
                   elapsed, result, recording, errors, reported, req_ids, submits, invoked,
                   unprintable, polled, remote, completed, tracking>>

(* ------------------- process_video_with_semaphore --------------------- *)
\* faulty variant: admission does not look at the semaphore
SemaphoreFreeAlways == TRUE

SemaphoreFree == semaphore > 0

\* lines 257-259: waiters of asyncio.Semaphore are woken first come first served,
\* and gather starts the tasks in list order
Admit(f) ==
    /\ mainpc = "gather"
    /\ pc[f] = "queued"
    /\ SemaphoreFree
    /\ \A g \in AllFiles : g < f => pc[g] # "queued"
    /\ Enter(f, 0, semaphore - 1)

\* faulty variant: the retry goes on polling the job of the failed attempt
BackoffDoneResume(f) ==
    /\ pc[f] = "backoff"
    /\ pc' = [pc EXCEPT ![f] = "sleep"]
    /\ UNCHANGED <<mainpc, input, output, temps, log_file, semaphore, log_data,
                   retry_count, request_id, elapsed, result, recording, errors, reported,
                   req_ids, submits, invoked, unprintable, polled, remote, completed, tracking>>

\* lines 249-250: the backoff sleep is over, the recursive call starts
BackoffDone(f) ==
    /\ pc[f] = "backoff"
    /\ Enter(f, NextRetryCount(retry_count[f]), semaphore)

(* ----------------- process_single_video: submit, upload --------------- *)
\* line 181 raises: submit_video_job got a status other than 200 (line 128)
SubmitApiError(f) ==
    /\ pc[f] = "submit"
    /\ UNCHANGED <<request_id, req_ids, submits, invoked, output, temps, fixed, reported, remote, polled>>
    /\ Except(f, "API error")

\* lines 182-187: the response holds no requestId
SubmitNoRequestId(f) ==
    /\ pc[f] = "submit"
    /\ request_id' = [request_id EXCEPT ![f] = None]
    /\ UNCHANGED <<req_ids, submits, invoked, output, temps, fixed, reported, remote, polled>>
    /\ Except(f, "No request ID received from API")

\* lines 182-189: a requestId but no uploadUrls
SubmitNoUploadUrls(f) ==
    /\ pc[f] = "submit"
    /\ request_id' = [request_id EXCEPT ![f] = RequestIdOf(f, submits[f])]
    /\ req_ids' = [req_ids EXCEPT ![f] = Record(@, RequestIdOf(f, submits[f]))]
    /\ remote' = Created(remote, RequestIdOf(f, submits[f]))
    /\ UNCHANGED <<submits, invoked, output, temps, fixed, reported, polled>>
    /\ Except(f, "No upload URLs received from API")

\* lines 182-196: the job is created, the upload starts
SubmitOk(f) ==
    /\ pc[f] = "submit"
    /\ request_id' = [request_id EXCEPT ![f] = RequestIdOf(f, submits[f])]
    /\ req_ids' = [req_ids EXCEPT ![f] = Record(@, RequestIdOf(f, submits[f]))]
    /\ invoked' = [invoked EXCEPT ![f] = Note(@, "upload")]
    /\ remote' = Created(remote, RequestIdOf(f, submits[f]))
    /\ UNCHANGED <<submits, errors, retry_count, output, temps, fixed, reported, polled>>
    /\ Suspend(f, "upload", semaphore)

\* lines 196-197: upload_video returned False
UploadFailed(f) ==
    /\ pc[f] = "upload"
    /\ UNCHANGED <<request_id, req_ids, submits, invoked, output, temps, fixed, reported, remote, polled>>
    /\ Except(f, "Video upload failed")

(* ------------------- process_single_video: polling -------------------- *)
\* faulty variant: the loop waits once more at the ceiling
PollLoopLate(f) ==
    IF elapsed[f] <= max_wait
    THEN /\ Suspend(f, "sleep", semaphore)
         /\ UNCHANGED <<errors, retry_count>>
    ELSE Except(f, TimeoutMessage)

\* line 204, `while elapsed < max_wait`: the next wait, or
\* line 241 after the loop
PollLoop(f) ==
    IF elapsed[f] < max_wait
    THEN /\ Suspend(f, "sleep", semaphore)
         /\ UNCHANGED <<errors, retry_count>>
    ELSE Except(f, TimeoutMessage)

\* lines 196-205: the upload succeeded, the polling loop starts (elapsed = 0)
UploadOk(f) ==
    /\ pc[f] = "upload"
    /\ UNCHANGED <<request_id, req_ids, submits, invoked, output, temps, fixed, reported, remote, polled>>
    /\ PollLoop(f)

\* lines 205-208: the wait is over, the status is asked for
SleepDone(f) ==
    /\ pc[f] = "sleep"
    /\ elapsed' = [elapsed EXCEPT ![f] = @ + wait_interval]
    /\ invoked' = [invoked EXCEPT ![f] = Note(@, "poll")]
    /\ pc' = [pc EXCEPT ![f] = "poll"]
    /\ polled' = [polled EXCEPT ![f] = NoResponse]
    /\ UNCHANGED <<request_id, req_ids, submits, errors, retry_count, output, temps, fixed, reported,
                   semaphore, result, log_data, remote, completed>>

\* line 208 raises: check_job_status got a status other than 200 (line 148)
PollError(f) ==
    /\ pc[f] = "poll"
    /\ UNCHANGED <<request_id, req_ids, submits, invoked, output, temps, fixed, reported, remote, polled>>
    /\ Except(f, "Status check failed")

\* lines 211-221: `complete` with a download url, the download starts
PollComplete(f) ==
    /\ pc[f] = "poll"
    /\ \E st \in Statuses :
           /\ StatusBranch(st) = "complete"
           /\ polled' = [polled EXCEPT ![f] = Response(st)]
    /\ remote' = remote \ {request_id[f]}
    /\ invoked' = [invoked EXCEPT ![f] = Note(@, "download")]
    /\ UNCHANGED <<request_id, req_ids, submits, errors, retry_count, output, temps, fixed, reported>>
    /\ Suspend(f, "download", semaphore)

\* lines 211-214: `complete` without a download url
PollCompleteNoUrl(f) ==
    /\ pc[f] = "poll"
    /\ \E st \in Statuses :
           /\ StatusBranch(st) = "complete"
           /\ polled' = [polled EXCEPT ![f] = Response(st)]
    /\ remote' = remote \ {request_id[f]}
    /\ UNCHANGED <<request_id, req_ids, submits, invoked, output, temps, fixed, reported>>
    /\ Except(f, "No download URL in completed response")

\* lines 230-233: `failed`, with or without an error text
PollFailed(f) ==
    /\ pc[f] = "poll"
    /\ \E st \in Statuses :
           /\ StatusBranch(st) = "failed"
           /\ polled' = [polled EXCEPT ![f] = Response(st)]
    /\ remote' = remote \ {request_id[f]}
    /\ UNCHANGED <<request_id, req_ids, submits, invoked, output, temps, fixed>>
    /\ \E e \in RemoteErrors :
           /\ reported' = [reported EXCEPT ![f] = Record(@, e)]
           /\ Except(f, JobFailedMessage(e))

\* lines 235-237: one of the in-progress statuses; its progress is printed
PollInProgress(f) ==
    /\ pc[f] = "poll"
    /\ \E st \in Statuses, progress \in ProgressValues :
           /\ StatusBranch(st) = "in_progress"
           /\ polled' = [polled EXCEPT ![f] = Response(st)]
    /\ UNCHANGED <<request_id, req_ids, submits, invoked, output, temps, fixed, reported, remote>>
    /\ PollLoop(f)

\* lines 238-239: any other status, a missing one included
PollUnrecognized(f) ==
    /\ pc[f] = "poll"
    /\ \E st \in Statuses :
           /\ StatusBranch(st) = "other"
           /\ polled' = [polled EXCEPT ![f] = Response(st)]
    /\ UNCHANGED <<request_id, req_ids, submits, invoked, output, temps, fixed, reported, remote>>
    /\ PollLoop(f)

(* ------------------- process_single_video: download ------------------- *)
\* faulty variant: success is returned without the rename
DownloadOkNoRename(f) ==
    /\ pc[f] = "download"
    /\ UNCHANGED <<request_id, req_ids, submits, invoked, errors, retry_count, output, temps,
                   fixed, reported, remote, polled>>
    /\ Return(f, NewResult(f, "success", None), CountSuccessful(log_data), semaphore)

\* lines 152-159 and 221-226: the body is written to the temporary file, which
\* is renamed to the final path
DownloadOk(f) ==
    /\ pc[f] = "download"
    /\ output' = [output EXCEPT ![f] = "complete"]
    /\ UNCHANGED <<request_id, req_ids, submits, invoked, errors, retry_count, temps, fixed, reported, remote, polled>>
    /\ Return(f, NewResult(f, "success", None), CountSuccessful(log_data), semaphore)

\* lines 153-154 and 227-228: a status other than 200, download_result returns False
DownloadRefused(f) ==
    /\ pc[f] = "download"
    /\ UNCHANGED <<request_id, req_ids, submits, invoked, output, temps, fixed, reported, remote, polled>>
    /\ Except(f, "Download failed")

\* lines 156-158 raise: the temporary file is open for writing and the body
\* stops coming (connection lost, or the sock_read or total timeout of
\* lines 276-280); nothing removes the file
DownloadBroken(f) ==
    /\ pc[f] = "download"
    /\ temps' = temps \cup {TempOf(f, submits[f])}
    /\ UNCHANGED <<request_id, req_ids, submits, invoked, output, fixed, reported, remote, polled>>
    /\ Except(f, "Response payload is not completed")

(* ------------------------------- Next --------------------------------- *)
Step(f) ==
    \/ Admit(f)
    \/ BackoffDone(f)
    \/ SubmitApiError(f)
    \/ SubmitNoRequestId(f)
    \/ SubmitNoUploadUrls(f)
    \/ SubmitOk(f)
    \/ UploadFailed(f)
    \/ UploadOk(f)
    \/ SleepDone(f)
    \/ PollError(f)
    \/ PollComplete(f)
    \/ PollCompleteNoUrl(f)
    \/ PollFailed(f)
    \/ PollInProgress(f)
    \/ PollUnrecognized(f)
    \/ DownloadOk(f)
    \/ DownloadRefused(f)
    \/ DownloadBroken(f)

Next ==
    \/ Discover
    \/ Collect
    \/ SaveLog
    \/ \E f \in AllFiles : Step(f)

Spec == Init /\ [][Next]_vars

\* The same program with the histories kept, over batches of at most
\* MaxRecorded files to process (and any number of files already processed).
HistInit == Constructed(TRUE, MaxRecorded) /\ unprintable = {} /\ tracking = FALSE

HistSpec == HistInit /\ [][Next]_vars

\* The event loop runs every task that can run, and every awaited call returns:
\* a step that stays possible is taken.
\* The end-to-end batch of the three files a, b and c, one of which has its
\* output already; the histories are kept.
MixedInit ==
    /\ Constructed(TRUE, 2)
    /\ input = {1, 2, 3}
    /\ \E c \in input : output[c] = "existing"
    /\ unprintable = {}
    /\ tracking = TRUE

MixedSpec == MixedInit /\ [][Next]_vars

FairSpec == Init /\ [][Next]_vars /\ WF_vars(Next)

\* The same program over input folders that may hold file names the console
\* cannot encode (on Linux, a name that is not valid UTF-8).
DefectInit ==
    /\ Constructed(FALSE, 1)
    /\ \E u \in SUBSET input : unprintable = u
    /\ tracking = FALSE

DefectSpec == DefectInit /\ [][Next]_vars

(* ============================== claims ================================ *)
Counted == log_data.successful + log_data.failed + log_data.skipped
Returned == {f \in input : pc[f] = "done"}
WithStatus(st) == {f \in input : result[f].status = st}
OutcomesOf(f) == {i \in 1..Len(log_data.results) : log_data.results[i].filename = f}
BatchOver == mainpc \in {"finished", "returned"}
Running == {"submit", "upload", "sleep", "poll", "download", "backoff"}

C3_SkipWithoutRemoteCall ==
    /\ \A f \in input :
           (output[f] = "existing" /\ pc[f] # "queued" /\ mainpc # "start") =>
               /\ pc[f] = "done"
               /\ result[f].status = "skipped"
               /\ invoked[f] = {}
               /\ submits[f] = 0
    /\ log_data.skipped = Cardinality(WithStatus("skipped"))

\* a skipped file beside a file that was submitted, uploaded and polled
C3_Witness ==
    \E f, g \in input :
        /\ output[f] = "existing" /\ result[f].status = "skipped"
        /\ {"submit", "upload", "poll"} \subseteq invoked[g]
        /\ log_data.skipped = 1

Ids(f) == {req_ids[f][i] : i \in 1..Len(req_ids[f])}
\* the first attempt of f failed and its second succeeded
FailedOnceThenSucceeded(f) ==
    pc[f] = "done" /\ result[f].status = "success" /\ Len(errors[f]) = 1
\* the exceptions of an attempt that got no requestId
NoIdErrors == {"API error", "No request ID received from API"}

\* C4 as stated: a runner whose first attempt fails at any step and whose
\* second attempt succeeds returns success with retry_count = 1, and exactly
\* two distinct requestIds were used for the file.
C4_TwoRequestIds ==
    \A f \in input : FailedOnceThenSucceeded(f) =>
        /\ result[f].retry_count = 1
        /\ Cardinality(Ids(f)) = 2

\* C4 as amended: such a runner returns success with retry_count = 1 after
\* exactly two submit calls; the requestIds it received are distinct, two of
\* them when the first attempt failed after submit had returned a requestId
\* and one when the first attempt failed at submit without a requestId; the
\* outcome carries the last one.
C4_RetrySucceeds ==
    \A f \in input : FailedOnceThenSucceeded(f) =>
        /\ result[f].retry_count = 1
        /\ submits[f] = 2
        /\ Cardinality(Ids(f)) = Len(req_ids[f])
        /\ Len(req_ids[f]) = (IF errors[f][1] \in NoIdErrors THEN 1 ELSE 2)
        /\ result[f].request_id = req_ids[f][Len(req_ids[f])]

\* a first attempt that failed at its download, then a success
C4_Witness ==
    \E f \in input :
        /\ FailedOnceThenSucceeded(f)
        /\ errors[f][1] = "Download failed"
        /\ Cardinality(Ids(f)) = 2

TempsOf(f) == {t \in temps : t[1] = f}

\* C5: a runner that fails on every attempt returns failed with retry_count =
\* RETRY_LIMIT, and nothing is at its final output path nor is any temporary
\* artifact of it left in the output folder.
C5_NoArtifactOnFailure ==
    \A f \in input : (pc[f] = "done" /\ result[f].status = "failed") =>
        /\ result[f].retry_count = RETRY_LIMIT
        /\ output[f] = "absent"
        /\ TempsOf(f) = {}

\* every attempt made for f so far ended in the polling timeout
AlwaysTimedOut(f) ==
    /\ submits[f] > 0
    /\ Len(errors[f]) = submits[f]
    /\ \A i \in 1..Len(errors[f]) : errors[f][i] = TimeoutMessage

\* C6: a runner all of whose attempts polled up to the ceiling without a
\* terminal status returns failed with the timeout error, no download was
\* started and nothing was renamed to its final output path.
C6_TimeoutFails ==
    \A f \in input : AlwaysTimedOut(f) =>
        /\ output[f] = "absent"
        /\ "download" \notin invoked[f]
        /\ TempsOf(f) = {}
        /\ pc[f] = "done" =>
               /\ result[f].status = "failed"
               /\ result[f].error = TimeoutMessage
               /\ submits[f] = RETRY_LIMIT + 1

\* a returned runner whose RETRY_LIMIT + 1 attempts all timed out
C6_Witness ==
    \E f \in input :
        /\ AlwaysTimedOut(f)
        /\ pc[f] = "done"
        /\ Len(errors[f]) = RETRY_LIMIT + 1

Admitted == {f \in input : pc[f] \in Running}

\* C7: at most MAX_CONCURRENT_TASKS runners are inside process_single_video,
\* and the semaphore counts the free slots.
C7_AtMostPoolSize ==
    /\ Cardinality(Admitted) <= MAX_CONCURRENT_TASKS
    /\ semaphore = MAX_CONCURRENT_TASKS - Cardinality(Admitted)

\* more files than slots: the pool is full and a file waits
C7_Witness ==
    /\ Cardinality(input) > MAX_CONCURRENT_TASKS
    /\ Cardinality(Admitted) = MAX_CONCURRENT_TASKS
    /\ \E f \in input : pc[f] = "queued"
    /\ \E f \in input : pc[f] = "backoff"

\* every attempt of b ended with the remote status `failed`
RemoteAlwaysFailed(b) ==
    /\ submits[b] = RETRY_LIMIT + 1
    /\ Len(reported[b]) = submits[b]
\* the batch of a (succeeds), b (remote `failed` on every attempt), c (output exists)
Mixed(a, b, c) ==
    /\ mainpc = "finished"
    /\ input = {a, b, c}
    /\ a # b /\ a # c /\ b # c
    /\ result[a].status = "success"
    /\ RemoteAlwaysFailed(b)
    /\ output[c] = "existing"

\* C8: the batch of a succeeding file, a file whose remote job reports `failed`
\* on every attempt and a file whose output exists ends with total_videos = 3,
\* successful = failed = skipped = 1, and the one failed outcome has the
\* failing file's name and the remote error text of its last attempt in its error.
C8_MixedBatch ==
    \A a, b, c \in AllFiles : Mixed(a, b, c) =>
        /\ log_data.total_videos = 3
        /\ log_data.successful = 1
        /\ log_data.failed = 1
        /\ log_data.skipped = 1
        /\ \A i \in 1..Len(log_data.results) :
               log_data.results[i].status = "failed" =>
                   /\ log_data.results[i].filename = b
                   /\ LET e == reported[b][Len(reported[b])]
                      IN  log_data.results[i].error =
                              (IF e = None THEN "Job failed: Unknown error"
                               ELSE "Job failed: " \o e)
        /\ \E i \in 1..Len(log_data.results) : log_data.results[i].status = "failed"

\* the batch a = 1, b = 2, c = 3 with an error text reported for b
C8_Witness ==
    /\ Mixed(1, 2, 3)
    /\ reported[2][RETRY_LIMIT + 1] = "quota exceeded"
    /\ errors[1] = <<>>

\* C9: once the tasks are gathered, the batch reaches the state where every
\* runner has returned its outcome, the ledger is saved and the summary
\* printed, whatever fails.
C9_BatchCompletes ==
    (mainpc = "gather") ~>
        (mainpc = "finished" /\ log_file = 1 /\ \A f \in input : pc[f] = "done")

\* the batch is over and every one of its three files failed
C9_Witness ==
    /\ mainpc = "finished"
    /\ log_file = 1
    /\ Cardinality(input) = 3
    /\ \A f \in input : result[f].status = "failed"

\* C10 as stated: for every file set, the empty one included, a batch that
\* ends normally has written the ledger exactly once.
C10_AlwaysWrittenOnce == BatchOver => log_file = 1

\* C10 as amended: a batch over a non-empty file set writes the ledger exactly
\* once, after every runner has returned and been merged; a batch that finds
\* no file returns without writing the ledger.
C10_WrittenOnceAfterMerge ==
    /\ log_file <= 1
    /\ mainpc = "finished" => (log_file = 1 /\ input # {})
    /\ mainpc = "returned" => (log_file = 0 /\ input = {})
    /\ log_file = 1 =>
           /\ Admitted = {}
           /\ \A f \in input : pc[f] = "done"
           /\ \A f \in input : Cardinality(OutcomesOf(f)) = 1
    /\ mainpc \in {"start", "gather", "save_log"} => log_file = 0

\* the ledger of a batch of three is written, one of them having retried
C10_Witness ==
    /\ log_file = 1
    /\ Cardinality(input) = 3
    /\ \E f \in input : result[f].retry_count = 1

\* C11: a file's outcome is `success` (and successful counts it) only when its
\* final output path holds the completely downloaded result, and the final
\* path changes only in the step in which a download has returned true: from
\* absent to complete, by the rename, together with the success outcome.
C11_SuccessAfterRename ==
    [][ /\ \A f \in input : result'[f].status = "success" => output'[f] = "complete"
        /\ log_data'.successful =
               Cardinality({f \in input : result'[f].status = "success"})
        /\ \A f \in AllFiles : output'[f] # output[f] =>
               /\ pc[f] = "download" /\ pc'[f] = "done"
               /\ output[f] = "absent" /\ output'[f] = "complete"
               /\ result'[f].status = "success"
        /\ \A t \in temps' : output'[t[1]] = "absent" \/ result'[t[1]].status = "success"
      ]_vars

\* one file succeeded and is at its final path, while the broken download of
\* another left its partial artifact beside an absent final path
C11_Witness ==
    \E f, g \in input :
        /\ result[f].status = "success" /\ output[f] = "complete"
        /\ result[g].status = "failed" /\ TempsOf(g) # {} /\ output[g] = "absent"

\* C12: a file is submitted at most 1 + RETRY_LIMIT times; a runner waits the
\* backoff only with retry budget left, and after each failure its next remote
\* call is a new submit: whenever it uploads, polls or downloads, the
\* requestId it uses is the one its latest submit received, different from
\* every requestId of an earlier attempt.
C12_RetryResubmits ==
    \A f \in input :
        /\ submits[f] <= 1 + RETRY_LIMIT
        /\ Cardinality(Ids(f)) = Len(req_ids[f])
        /\ pc[f] = "backoff" =>
               /\ retry_count[f] < RETRY_LIMIT
               /\ submits[f] = Len(errors[f])
        /\ pc[f] \in Running \ {"backoff"} =>
               /\ submits[f] = Len(errors[f]) + 1
               /\ submits[f] = retry_count[f] + 1
        /\ pc[f] = "submit" => request_id[f] = None
        /\ pc[f] \in {"upload", "sleep", "poll", "download"} =>
               /\ req_ids[f] # <<>>
               /\ request_id[f] = req_ids[f][Len(req_ids[f])]
               /\ request_id[f] = RequestIdOf(f, submits[f])

\* the retry polls its own job, the second one created for the file
C12_Witness ==
    \E f \in input :
        /\ pc[f] = "poll"
        /\ submits[f] = 2
        /\ Len(req_ids[f]) = 2
        /\ request_id[f] = req_ids[f][2] /\ request_id[f] # req_ids[f][1]

\* the files discovered before f
Before(f) == {g \in input : g < f}

\* C13: a runner takes one slot when it is admitted, which needs a free slot,
\* keeps it through every step it makes before its return (polling waits, a
\* failed attempt, the backoff, the retry), and gives it back in the step that
\* produces its terminal outcome and in no other; a file that found the pool
\* full is admitted only after some runner has returned.
C13_SlotHeldToTheEnd ==
    [][ /\ \A f \in input :
               /\ (pc[f] = "queued" /\ pc'[f] # "queued") =>
                      /\ semaphore > 0
                      /\ Cardinality(Admitted) < MAX_CONCURRENT_TASKS
                      /\ pc'[f] \in Running => semaphore' = semaphore - 1
                      /\ pc'[f] = "done" => semaphore' = semaphore
                      /\ Cardinality(Before(f)) >= MAX_CONCURRENT_TASKS => Returned # {}
               /\ (pc[f] \in Running /\ pc'[f] \in Running /\ pc'[f] # pc[f]) =>
                      semaphore' = semaphore
               /\ (pc[f] \in Running /\ pc'[f] = "done") =>
                      /\ semaphore' = semaphore + 1
                      /\ result'[f].status \in {"success", "failed", "skipped"}
               /\ pc[f] = "done" => pc'[f] = "done"
        /\ semaphore' > semaphore =>
               \E f \in input : pc[f] \in Running /\ pc'[f] = "done"
      ]_vars

\* a file that found the pool full was admitted after a runner returned, and
\* holds its slot in the polling wait of its retry while the pool is full again
C13_Witness ==
    \E f \in input :
        /\ Cardinality(Before(f)) >= MAX_CONCURRENT_TASKS
        /\ pc[f] = "sleep"
        /\ retry_count[f] = 1
        /\ semaphore = 0

\* the exception of the attempt of f that fails in this step, None when none does
Raises(f) ==
    IF Len(errors'[f]) > Len(errors[f]) THEN errors'[f][Len(errors'[f])] ELSE None

\* C14: in one attempt the accumulated wait is a multiple of wait_interval
\* and never exceeds max_wait (at most max_wait / wait_interval polls), a
\* wait starts only below the ceiling, every poll follows one wait of
\* wait_interval, the timeout is raised only by the poll made at elapsed =
\* max_wait when it is answered with a status other than complete and failed,
\* and a poll answered `complete` never raises the timeout, the last included.
C14_PollingCeiling ==
    [][ \A f \in input :
            /\ elapsed'[f] <= max_wait
            /\ elapsed'[f] % wait_interval = 0
            /\ pc'[f] = "sleep" => elapsed'[f] < max_wait
            /\ (pc'[f] = "poll" /\ pc[f] # "poll") =>
                   /\ pc[f] = "sleep"
                   /\ elapsed'[f] = elapsed[f] + wait_interval
            /\ Raises(f) = TimeoutMessage =>
                   /\ pc[f] = "poll"
                   /\ elapsed[f] = max_wait
                   /\ StatusBranch(polled'[f].status) \in {"in_progress", "other"}
                   /\ polled'[f] # NoResponse
            /\ (pc[f] = "poll" /\ StatusBranch(polled'[f].status) = "complete") =>
                   /\ Raises(f) \in {None, "No download URL in completed response"}
                   /\ Raises(f) = None => pc'[f] = "download"
      ]_vars

\* the poll made at the ceiling was answered `complete` and the download runs
C14_Witness ==
    \E f \in input :
        /\ pc[f] = "download"
        /\ elapsed[f] = max_wait
        /\ polled[f].status = "complete"

\* the poll of f is answered in this step with an in-progress status or with
\* a status that is not recognized
OpenPoll(f) ==
    /\ pc[f] = "poll"
    /\ polled'[f] # NoResponse
    /\ polled'[f].status \notin {"complete", "failed"}

\* C15 as stated: a poll answered with an in-progress or an unrecognized
\* status never ends the attempt: the runner waits and polls again.
C15_NeverEndsAttempt ==
    [][ \A f \in input : OpenPoll(f) =>
            /\ pc'[f] = "sleep"
            /\ Raises(f) = None
      ]_vars

\* C15 as amended: such a poll is never itself an error and, made below the
\* ceiling, leaves the runner in the polling loop with nothing of its state
\* changed, to wait and poll again; made at the ceiling it ends the attempt
\* with the timeout error; neither depends on the status or on its progress.
C15_KeepsPollingBelowCeiling ==
    [][ \A f \in input : OpenPoll(f) =>
            IF elapsed[f] < max_wait
            THEN /\ pc'[f] = "sleep"
                 /\ Raises(f) = None
                 /\ elapsed'[f] = elapsed[f]
                 /\ request_id'[f] = request_id[f]
                 /\ retry_count'[f] = retry_count[f]
                 /\ result'[f] = result[f]
                 /\ UNCHANGED <<output, temps, log_data, semaphore, submits>>
            ELSE /\ Raises(f) = TimeoutMessage
                 /\ pc'[f] \in {"backoff", "done"}
      ]_vars

\* a runner waits again after a poll below the ceiling that was answered
\* without a status
C15_Witness ==
    \E f \in input :
        /\ pc[f] = "sleep"
        /\ polled[f].status = None
        /\ elapsed[f] = wait_interval

\* the runner of f fails in this step: an attempt ends in the backoff, the
\* backoff ends in the retry, or the runner returns `failed`
FailureStep(f) ==
    /\ pc[f] \in Running
    /\ pc'[f] # pc[f]
    /\ \/ pc'[f] = "backoff"
       \/ pc[f] = "backoff"
       \/ pc'[f] = "done" /\ result'[f].status = "failed"

\* C16: a step in which one runner fails, retries or returns `failed` leaves
\* every other file as it was: its position, requestId, retry count, elapsed
\* wait, returned outcome, final output path and temporary artifacts; no
\* runner is ended by another's failure.
C16_FailuresIsolated ==
    [][ \A f \in input : FailureStep(f) =>
            \A g \in input \ {f} :
                /\ pc'[g] = pc[g]
                /\ request_id'[g] = request_id[g]
                /\ retry_count'[g] = retry_count[g]
                /\ elapsed'[g] = elapsed[g]
                /\ result'[g] = result[g]
                /\ output'[g] = output[g]
                /\ {t \in temps' : t[1] = g} = {t \in temps : t[1] = g}
      ]_vars

\* one runner has returned `failed` after its retry, another is in the
\* backoff of a failed attempt, and a third goes on with its first attempt
C16_Witness ==
    \E f, g, h \in input :
        /\ pc[f] = "done" /\ result[f].status = "failed" /\ result[f].retry_count = 1
        /\ pc[g] = "backoff"
        /\ pc[h] = "download" /\ retry_count[h] = 0 /\ request_id[h] # None

\* the tasks that ended with an exception instead of a returned outcome
Escaped == WithStatus("raised")
\* the entries of results that lines 289-294 made
Synthetic == {i \in 1..Len(log_data.results) : "retry_count" \notin DOMAIN log_data.results[i]}
\* the entries of results a runner returned for g
ReturnedFor(g) ==
    {i \in (1..Len(log_data.results)) \ Synthetic : log_data.results[i].filename = g}

\* C17: once gather's results are merged, each task that ended with an
\* exception has exactly one synthetic outcome (`failed`, filename "unknown")
\* and is counted once, as failed: results holds one outcome per discovered
\* file, successful + failed + skipped = total_videos, and every other file
\* has its own returned outcome.
C17_EscapeCountedOnce ==
    mainpc \in {"save_log", "finished"} =>
        /\ Cardinality(Synthetic) = Cardinality(Escaped)
        /\ \A i \in Synthetic :
               /\ log_data.results[i].filename = "unknown"
               /\ log_data.results[i].status = "failed"
        /\ Len(log_data.results) = Cardinality(input)
        /\ \A g \in input \ Escaped : Cardinality(ReturnedFor(g)) = 1
        /\ log_data.failed = Cardinality(WithStatus("failed")) + Cardinality(Escaped)
        /\ Counted = log_data.total_videos

\* C18: the jobs created by submit that have not been reported terminal are
\* never more than MAX_CONCURRENT_TASKS.
C18_RemoteJobsBounded == Cardinality(remote) <= MAX_CONCURRENT_TASKS

\* C19: results stays empty until every runner has returned; it is then filled
\* with one outcome per file in discovery order (for files a < b the outcome of
\* a comes before that of b) whatever the order the runners returned in, and
\* the final counts are those of the outcomes, the same for every such order.
C19_ResultsInDiscoveryOrder ==
    /\ mainpc \in {"start", "gather"} => log_data.results = <<>>
    /\ log_data.results # <<>> =>
           /\ \A f \in input : pc[f] = "done"
           /\ Len(completed) = Cardinality(input)
           /\ Len(log_data.results) = Cardinality(input)
           /\ \A i, j \in 1..Len(log_data.results) :
                  i < j => log_data.results[i].filename < log_data.results[j].filename
           /\ \A i \in 1..Len(log_data.results) :
                  log_data.results[i] = result[log_data.results[i].filename]
           /\ log_data.successful = Cardinality(WithStatus("success"))
           /\ log_data.failed = Cardinality(WithStatus("failed"))
           /\ log_data.skipped = Cardinality(WithStatus("skipped"))

\* the runner of a later file returned before the runner of an earlier one,
\* and the merged results are in discovery order
C19_Witness ==
    /\ mainpc = "finished"
    /\ Len(log_data.results) = 3
    /\ \E i, j \in 1..Len(completed) : i < j /\ completed[i] > completed[j]
    /\ log_data.results[1].filename = 1

\* the exception that ended the last attempt of f
LastError(f) == errors[f][Len(errors[f])]
\* the exceptions line 181 to 189 raise
SubmitErrors == NoIdErrors \cup {"No upload URLs received from API"}
\* f has returned the outcome of an attempt sequence
Settled(f) == pc[f] = "done" /\ result[f].status \in {"success", "failed"}

\* C20 as stated: the outcome is that of the last attempt, with a null
\* request_id whenever that attempt failed at submit.
C20_NullIdAfterSubmitFailure ==
    \A f \in input : Settled(f) =>
        /\ result[f].retry_count = submits[f] - 1
        /\ result[f].status = "success" =>
               (result[f].request_id # None /\ result[f].error = None)
        /\ result[f].status = "failed" =>
               /\ result[f].error = LastError(f)
               /\ LastError(f) \in SubmitErrors => result[f].request_id = None

\* C20 as amended: the outcome carries the retry_count of the last attempt,
\* its error when it failed and no error when it succeeded, and its
\* request_id: null exactly when the last submit returned no requestId, and
\* otherwise the requestId of the last submit, never one of an earlier attempt.
C20_OutcomeOfLastAttempt ==
    \A f \in input : Settled(f) =>
        /\ result[f].retry_count = submits[f] - 1
        /\ result[f].retry_count = retry_count[f]
        /\ result[f].status = "success" =>
               /\ result[f].request_id = RequestIdOf(f, submits[f])
               /\ result[f].error = None
               /\ Len(errors[f]) = submits[f] - 1
        /\ result[f].status = "failed" =>
               /\ Len(errors[f]) = submits[f]
               /\ result[f].error = LastError(f)
               /\ result[f].request_id =
                      (IF LastError(f) \in NoIdErrors THEN None
                       ELSE RequestIdOf(f, submits[f]))
        /\ \A n \in 1..(submits[f] - 1) : result[f].request_id # RequestIdOf(f, n)

\* the first attempt got a requestId and failed later, the retry failed at
\* submit with an API error: the outcome has no request_id
C20_Witness ==
    \E f \in input :
        /\ Settled(f)
        /\ Len(errors[f]) = 2
        /\ errors[f][1] = "Video upload failed"
        /\ errors[f][2] = "API error"
        /\ Len(req_ids[f]) = 1
        /\ result[f].request_id = None

====
